---- MODULE Spec2Model ----
(***************************************************************************)
(* Execution model of assemply/node.py: the SubrutineNode built by         *)
(* node_sub (constructor, run, _with_out, _in) and the two output          *)
(* managers QueueManager / QueuesManager, running against channels and     *)
(* the azip join.                                                          *)
(***************************************************************************)
EXTENDS Integers, Sequences, FiniteSets, TLC

\* ------------------------------------------------------------------ bounds
\* Values an upstream source puts on one channel before it closes it.
MaxLen == 2

\* ------------------------------------------------------------- vocabulary
Nodes == {"n1", "n2"}
Chans == {"a", "b", "x", "y", "z", "w"}

Range(s) == {s[i] : i \in DOMAIN s}
Min(i, j) == IF i <= j THEN i ELSE j

RECURSIVE SumSeq(_)
SumSeq(s) == IF s = <<>> THEN 0 ELSE Head(s) + SumSeq(Tail(s))

\* Channel items: a plain value, or a tuple of plain values.
Scalar(v) == [tuple |-> FALSE, vals |-> <<v>>]
Tuple(vs) == [tuple |-> TRUE, vals |-> vs]
Weight(item) == SumSeq(item.vals)

VARIABLES
    inputs,             \* node_sub(inputs=...): declared input names, per node
    outputs,            \* node_sub(outputs=...): declared output names, per node
    kwargs,             \* arguments of a constructor call still to be made,
                        \* per node: name -> channel
    cap,                \* capacity of every channel
    trace,              \* whether the values of a run are recorded below
    pc,                 \* per node: position in constructor / run
    err,                \* per node: the exception in flight or surfaced
    self_inputs,        \* self._inputs
    self_outputs,       \* self._outputs
    self_queue_manager, \* self._queue_manager: [kind, targets]
    depth,              \* number of `async with` output scopes held
    in_args,            \* values pulled so far in the current azip round
    data,               \* value returned by f for the current join tuple
    puti,               \* position of the broadcast in zip(self._outputs, r)
    chan,               \* per channel: [buf, closed]
    \* history of what happened, read by the properties only
    closeLog,           \* per node: channels it closed, in order
    pushed,             \* per node, per channel: items it pushed, in order
    joins,              \* per node: the join tuples azip produced (as args)
    results,            \* per node: the values f returned
    raisedAt,           \* per node: index of the join tuple f raised on, or 0
    ops,                \* per node, per channel: kinds of operation performed
    srcCount,           \* per channel: values put by its upstream source
    drained,            \* per channel: items taken by the downstream reader
    closedBy            \* per channel: who closed it first ("" if open)

nodeVars == <<pc, err, self_inputs, self_outputs, self_queue_manager, depth,
              in_args, data, puti>>
histVars == <<closeLog, pushed, joins, results, raisedAt, ops, srcCount,
              drained, closedBy>>
confVars == <<inputs, outputs, kwargs, cap, trace>>
vars == <<confVars, nodeVars, chan, histVars>>

\* --------------------------------------------------------------- wiring
\* Channels a node is wired to by its declared names: through the mapping
\* handed to its constructor, and once constructed through what it bound.
InChans(n) ==
    IF pc[n] = "new"
    THEN {kwargs[n][k] : k \in Range(inputs[n]) \cap DOMAIN kwargs[n]}
    ELSE {self_inputs[n][k] : k \in DOMAIN self_inputs[n]}
OutChans(n) ==
    IF pc[n] = "new"
    THEN {kwargs[n][k] : k \in Range(outputs[n]) \cap DOMAIN kwargs[n]}
    ELSE {self_outputs[n][k] : k \in DOMAIN self_outputs[n]}
Present(n) == pc[n] # "absent"
Producers(c) == {n \in Nodes : Present(n) /\ c \in OutChans(n)}
Consumers(c) == {n \in Nodes : Present(n) /\ c \in InChans(n)}
\* Fed by a source outside the graph / read by a reader outside the graph.
IsSource(c) == Consumers(c) # {} /\ Producers(c) = {}
IsSink(c) == Producers(c) # {} /\ Consumers(c) = {}

\* ------------------------------------------------------- the transformation
\* f is opaque to the node.  Its value on a given binding of arguments is
\* fixed (the arguments weighted by the parameter they are bound to); what a
\* call does - raise, return a plain value, return a tuple of some length -
\* is the caller's choice of f and is drawn per call.
NameWeight(k) == IF k = "a" THEN 1 ELSE 2
FCore(args) ==
    LET ks == DOMAIN args
        W[S \in SUBSET ks] ==
            IF S = {} THEN 0
            ELSE LET k == CHOOSE x \in S : TRUE
                 IN NameWeight(k) * Weight(args[k]) + W[S \ {k}]
    IN W[ks]
FShapes(K) ==
    {[tuple |-> FALSE, arity |-> 1]}
        \cup {[tuple |-> TRUE, arity |-> m] : m \in {K - 1, K, K + 1} \cap Nat}
FValue(args, shape) ==
    IF shape.tuple
    THEN Tuple([i \in 1..shape.arity |-> 10 * FCore(args) + i])
    ELSE Scalar(FCore(args))

\* The j-th value the upstream source of channel c puts on it.
SrcVal(c, j) == IF c = "a" THEN j ELSE 10 * j

\* ----------------------------------------------------------- constructor
\* A declared name the mapping does not supply: the KeyError of the two
\* dict comprehensions.
MissingName(kw, ins, outs) ==
    \E k \in Range(ins) \cup Range(outs) : k \notin DOMAIN kw

\* Variant: the whole mapping is kept instead of the declared names.
BindAll(kw, names) == kw

\* {k: kwargs[k] for k in names}
BindNames(kw, names) == [k \in Range(names) |-> kw[k]]

\* Variant: the unpacking manager whatever the number of outputs.
ManagerKindUnpacking(outs) == "QueuesManager"

\* (QueueManager if len(outputs) == 1 else QueuesManager)
ManagerKind(outs) == IF Len(outs) = 1 THEN "QueueManager" ELSE "QueuesManager"

\* QueueManager keeps output_dict[output_key[0]]; QueuesManager keeps
\* [output_dict[o] for o in output_keys].
ManagerTargets(kind, od, outs) ==
    IF kind = "QueueManager"
    THEN <<od[outs[1]]>>
    ELSE [i \in DOMAIN outs |-> od[outs[i]]]

NoManager == [kind |-> "none", targets |-> <<>>]

\* SubrutineNode(**kwargs)
Construct(n) ==
    /\ pc[n] = "new"
    /\ IF MissingName(kwargs[n], inputs[n], outputs[n])
       THEN /\ pc' = [pc EXCEPT ![n] = "noinstance"]
            /\ err' = [err EXCEPT ![n] = "AttributeError"]
            /\ UNCHANGED <<self_inputs, self_outputs, self_queue_manager>>
       ELSE LET od == BindNames(kwargs[n], outputs[n])
                kind == ManagerKind(outputs[n])
            IN /\ self_inputs' = [self_inputs EXCEPT ![n] = BindNames(kwargs[n], inputs[n])]
               /\ self_outputs' = [self_outputs EXCEPT ![n] = od]
               /\ self_queue_manager' = [self_queue_manager EXCEPT ![n] =
                      [kind |-> kind, targets |-> ManagerTargets(kind, od, outputs[n])]]
               /\ pc' = [pc EXCEPT ![n] = "Idle"]
               /\ UNCHANGED err
    /\ kwargs' = [kwargs EXCEPT ![n] = <<>>]
    /\ UNCHANGED <<inputs, outputs, cap, trace, depth, in_args, data, puti,
                   chan, histVars>>

\* ------------------------------------------------------------------- run
\* Variant: with no output to acquire, run() goes straight to the loop.
RunAsSink(n) ==
    /\ pc[n] = "Idle"
    /\ pc' = [pc EXCEPT ![n] = IF Len(outputs[n]) = 0 THEN "in" ELSE "with_out"]
    /\ UNCHANGED <<confVars, err, self_inputs, self_outputs, self_queue_manager,
                   depth, in_args, data, puti, chan, histVars>>

\* run(): self._with_out(*outputs).  With no output there is no out_queue
\* argument to bind and the call itself raises TypeError.
Run(n) ==
    /\ pc[n] = "Idle"
    /\ IF Len(outputs[n]) = 0
       THEN /\ pc' = [pc EXCEPT ![n] = "done"]
            /\ err' = [err EXCEPT ![n] = "TypeError"]
       ELSE /\ pc' = [pc EXCEPT ![n] = "with_out"]
            /\ UNCHANGED err
    /\ UNCHANGED <<confVars, self_inputs, self_outputs, self_queue_manager,
                   depth, in_args, data, puti, chan, histVars>>

\* Channel of the i-th declared output.
OutChan(n, i) == self_outputs[n][outputs[n][i]]
\* Variant: the join is driven over the output dict.
InChanFromOutputs(n, i) == self_outputs[n][outputs[n][Min(i, Len(outputs[n]))]]

\* Channel of the i-th declared input: self._inputs.values() keeps the order
\* of the comprehension over `inputs`.
InChan(n, i) == self_inputs[n][inputs[n][i]]

AddOp(o, n, c, kind) == [o EXCEPT ![n][c] = @ \cup {kind}]

\* _with_out: `async with self._outputs[out_queue]` on the next declared
\* output, then recurse on the rest or call _in.
WithOut(n) ==
    /\ pc[n] = "with_out"
    /\ LET i == depth[n] + 1
       IN /\ depth' = [depth EXCEPT ![n] = i]
          /\ ops' = AddOp(ops, n, OutChan(n, i), "enter")
          /\ pc' = [pc EXCEPT ![n] = IF i = Len(outputs[n]) THEN "in" ELSE "with_out"]
    /\ UNCHANGED <<confVars, err, self_inputs, self_outputs, self_queue_manager,
                   in_args, data, puti, chan, closeLog, pushed, joins, results,
                   raisedAt, srcCount, drained, closedBy>>

\* ------------------------------------------------------------ the channel
\* put on an open channel appends; the scope exit of `async with` closes.
ChannelPut(ch, c, v) == [ch EXCEPT ![c].buf = Append(@, v)]
ChannelGet(ch, c) == [ch EXCEPT ![c].buf = Tail(@)]
ChannelClose(ch, c) == [ch EXCEPT ![c].closed = TRUE]
FirstCloser(cb, c, who) == IF cb[c] = "" THEN [cb EXCEPT ![c] = who] ELSE cb
\* A sequence of recorded values grows only where values are recorded.
Record(log, v) == IF trace THEN Append(log, v) ELSE log

\* ------------------------------------------------------------------- _in
\* Variant: a failed push is caught and the loop goes on.
LeaveBodySwallowPutError(e) == IF e = "ChannelClosed" THEN "in" ELSE "unwind"

\* Variant: cleanup written after the body instead of around it, so an
\* exception leaves run() without exiting the scopes.
LeaveBodyNoCleanup(e) == IF e = "none" THEN "unwind" ELSE "done"

\* Where control goes when the body of the innermost `async with` is left,
\* normally (e = "none") or by an exception e: every enclosing scope exits.
LeaveBody(e) == "unwind"

\* Variant: azip over no sequence yields an empty tuple.
AzipEmptyYields(n) ==
    /\ pc[n] = "in"
    /\ Len(inputs[n]) = 0
    /\ Len(joins[n]) < MaxLen
    /\ pc' = [pc EXCEPT ![n] = "call"]
    /\ UNCHANGED <<confVars, err, self_inputs, self_outputs, self_queue_manager,
                   depth, in_args, data, puti, chan, histVars>>

\* azip over no sequence at all yields nothing.
AzipEmpty(n) ==
    /\ pc[n] = "in"
    /\ Len(inputs[n]) = 0
    /\ pc' = [pc EXCEPT ![n] = LeaveBody("none")]
    /\ UNCHANGED <<confVars, err, self_inputs, self_outputs, self_queue_manager,
                   depth, in_args, data, puti, chan, histVars>>

\* azip takes the next value of the next input of the round.
AzipPull(n) ==
    /\ pc[n] = "in"
    /\ Len(inputs[n]) > 0
    /\ LET i == Len(in_args[n]) + 1
           c == InChan(n, i)
       IN /\ chan[c].buf # <<>>
          /\ in_args' = [in_args EXCEPT ![n] = Append(@, Head(chan[c].buf))]
          /\ chan' = ChannelGet(chan, c)
          /\ ops' = AddOp(ops, n, c, "get")
          /\ pc' = [pc EXCEPT ![n] = IF i = Len(inputs[n]) THEN "call" ELSE "in"]
    /\ UNCHANGED <<confVars, err, self_inputs, self_outputs, self_queue_manager,
                   depth, data, puti, closeLog, pushed, joins, results,
                   raisedAt, srcCount, drained, closedBy>>

\* The next input of the round is drained and closed: azip stops and what
\* the round already took from earlier inputs is dropped.
AzipStop(n) ==
    /\ pc[n] = "in"
    /\ Len(inputs[n]) > 0
    /\ LET c == InChan(n, Len(in_args[n]) + 1)
       IN /\ chan[c].buf = <<>>
          /\ chan[c].closed
          /\ ops' = AddOp(ops, n, c, "get")
    /\ in_args' = [in_args EXCEPT ![n] = <<>>]
    /\ pc' = [pc EXCEPT ![n] = LeaveBody("none")]
    /\ UNCHANGED <<confVars, err, self_inputs, self_outputs, self_queue_manager,
                   depth, data, puti, chan, closeLog, pushed, joins, results,
                   raisedAt, srcCount, drained, closedBy>>

\* Variant: the values are bound to the names from the far end.
BindArgsReversed(names, vals) ==
    [k \in Range(names) |->
        vals[Len(names) + 1 - (CHOOSE i \in DOMAIN names : names[i] = k)]]

\* dict(zip(self._inputs.keys(), in_args))
BindArgs(names, vals) ==
    [k \in Range(names) |-> vals[CHOOSE i \in DOMAIN names : names[i] = k]]

\* Variant: the tuple is walked from its last element.
ZipOutputsReversed(targets, vals) ==
    [i \in 1..Min(Len(targets), Len(vals)) |->
        <<targets[i], Scalar(vals[Len(vals) - i + 1])>>]

\* zip(self._outputs, r): pairs up to the shorter of the two.
ZipOutputs(targets, vals) ==
    [i \in 1..Min(Len(targets), Len(vals)) |-> <<targets[i], Scalar(vals[i])>>]

\* The (channel, item) pushes one put(r) of the manager performs, in order.
PutPairs(m, d) ==
    IF m.kind = "QueueManager"
    THEN << <<m.targets[1], d>> >>
    ELSE ZipOutputs(m.targets, d.vals)

\* QueuesManager.put zips r: a value that is no tuple cannot be iterated.
NotIterable(m, d) == m.kind = "QueuesManager" /\ ~d.tuple

\* One pass of the loop body up to the first await of put: bind the join
\* tuple by input name, call f, hand the result to the manager.
Call(n) ==
    /\ pc[n] = "call"
    /\ LET args == BindArgs(inputs[n], in_args[n])
           k == Len(joins[n]) + 1
       IN /\ joins' = [joins EXCEPT ![n] = Record(@, args)]
          /\ in_args' = [in_args EXCEPT ![n] = <<>>]
          /\ \/ /\ raisedAt' = [raisedAt EXCEPT ![n] = IF trace THEN k ELSE 0]
                /\ err' = [err EXCEPT ![n] = "TransformationError"]
                /\ pc' = [pc EXCEPT ![n] = LeaveBody("TransformationError")]
                /\ UNCHANGED <<data, puti, results>>
             \/ \E sh \in FShapes(Len(outputs[n])) :
                    LET d == FValue(args, sh)
                        m == self_queue_manager[n]
                    IN /\ results' = [results EXCEPT ![n] = Record(@, d)]
                       /\ data' = [data EXCEPT ![n] = d]
                       /\ UNCHANGED raisedAt
                       /\ IF NotIterable(m, d)
                          THEN /\ err' = [err EXCEPT ![n] = "TypeError"]
                               /\ pc' = [pc EXCEPT ![n] = LeaveBody("TypeError")]
                               /\ UNCHANGED puti
                          ELSE /\ UNCHANGED err
                               /\ puti' = [puti EXCEPT ![n] = 1]
                               /\ pc' = [pc EXCEPT ![n] =
                                      IF PutPairs(m, d) = <<>> THEN "in" ELSE "put"]
    /\ UNCHANGED <<confVars, self_inputs, self_outputs, self_queue_manager,
                   depth, chan, closeLog, pushed, ops, srcCount, drained,
                   closedBy>>

\* Variant: a push that does not wait (put_nowait); a full channel raises.
PutNoWait(n) ==
    /\ pc[n] = "put"
    /\ LET pairs == PutPairs(self_queue_manager[n], data[n])
           c == pairs[puti[n]][1]
           v == pairs[puti[n]][2]
       IN /\ ~chan[c].closed
          /\ ops' = AddOp(ops, n, c, "put")
          /\ IF Len(chan[c].buf) < cap
             THEN /\ chan' = ChannelPut(chan, c, v)
                  /\ pushed' = [pushed EXCEPT ![n][c] = Record(@, v)]
                  /\ pc' = [pc EXCEPT ![n] = IF puti[n] = Len(pairs) THEN "in" ELSE "put"]
                  /\ puti' = [puti EXCEPT ![n] = IF puti[n] = Len(pairs) THEN 1 ELSE @ + 1]
                  /\ UNCHANGED err
             ELSE /\ err' = [err EXCEPT ![n] = "QueueFull"]
                  /\ pc' = [pc EXCEPT ![n] = LeaveBody("QueueFull")]
                  /\ UNCHANGED <<chan, pushed, puti>>
    /\ UNCHANGED <<confVars, self_inputs, self_outputs, self_queue_manager,
                   depth, in_args, data, closeLog, joins, results, raisedAt,
                   srcCount, drained, closedBy>>

\* One `await o.put(v)` on an open channel with room.
Put(n) ==
    /\ pc[n] = "put"
    /\ LET pairs == PutPairs(self_queue_manager[n], data[n])
           c == pairs[puti[n]][1]
           v == pairs[puti[n]][2]
       IN /\ ~chan[c].closed
          /\ Len(chan[c].buf) < cap
          /\ chan' = ChannelPut(chan, c, v)
          /\ pushed' = [pushed EXCEPT ![n][c] = Record(@, v)]
          /\ ops' = AddOp(ops, n, c, "put")
          /\ IF puti[n] = Len(pairs)
             THEN /\ pc' = [pc EXCEPT ![n] = "in"]
                  /\ puti' = [puti EXCEPT ![n] = 1]
             ELSE /\ puti' = [puti EXCEPT ![n] = @ + 1]
                  /\ UNCHANGED pc
    /\ UNCHANGED <<confVars, err, self_inputs, self_outputs, self_queue_manager,
                   depth, in_args, data, closeLog, joins, results, raisedAt,
                   srcCount, drained, closedBy>>

\* `await o.put(v)` on a channel that is already closed raises.
PutClosed(n) ==
    /\ pc[n] = "put"
    /\ LET pairs == PutPairs(self_queue_manager[n], data[n])
           c == pairs[puti[n]][1]
       IN /\ chan[c].closed
          /\ ops' = AddOp(ops, n, c, "put")
    /\ err' = [err EXCEPT ![n] = "ChannelClosed"]
    /\ pc' = [pc EXCEPT ![n] = LeaveBody("ChannelClosed")]
    /\ UNCHANGED <<confVars, self_inputs, self_outputs, self_queue_manager,
                   depth, in_args, data, puti, chan, closeLog, pushed, joins,
                   results, raisedAt, srcCount, drained, closedBy>>

\* Variant: scopes released in the order they were acquired.
ScopeToExitDeclaredOrder(held, total) == total - held + 1

\* Of `held` nested scopes, the one that exits next: the innermost.
ScopeToExit(held, total) == held

\* Variant: `await self._in()` written after the `if` instead of in its
\* `else`, so the loop runs again in every enclosing scope once the inner
\* one has exited normally.
UnwindThenLoop(n) ==
    /\ pc[n] = "unwind"
    /\ depth[n] > 0
    /\ LET c == OutChan(n, ScopeToExit(depth[n], Len(outputs[n])))
       IN /\ chan' = ChannelClose(chan, c)
          /\ closeLog' = [closeLog EXCEPT ![n] = Append(@, c)]
          /\ closedBy' = FirstCloser(closedBy, c, n)
          /\ ops' = AddOp(ops, n, c, "close")
    /\ depth' = [depth EXCEPT ![n] = @ - 1]
    /\ pc' = [pc EXCEPT ![n] = IF depth[n] = 1 THEN "done"
                                ELSE IF err[n] = "none" THEN "in" ELSE "unwind"]
    /\ UNCHANGED <<confVars, err, self_inputs, self_outputs, self_queue_manager,
                   in_args, data, puti, pushed, joins, results, raisedAt,
                   srcCount, drained>>

\* Exit of one `async with` scope: the channel is closed, and the exception
\* in flight, if any, goes on to the enclosing scope and out of run().
Unwind(n) ==
    /\ pc[n] = "unwind"
    /\ depth[n] > 0
    /\ LET c == OutChan(n, ScopeToExit(depth[n], Len(outputs[n])))
       IN /\ chan' = ChannelClose(chan, c)
          /\ closeLog' = [closeLog EXCEPT ![n] = Append(@, c)]
          /\ closedBy' = FirstCloser(closedBy, c, n)
          /\ ops' = AddOp(ops, n, c, "close")
    /\ depth' = [depth EXCEPT ![n] = @ - 1]
    /\ pc' = [pc EXCEPT ![n] = IF depth[n] = 1 THEN "done" ELSE "unwind"]
    /\ UNCHANGED <<confVars, err, self_inputs, self_outputs, self_queue_manager,
                   in_args, data, puti, pushed, joins, results, raisedAt,
                   srcCount, drained>>

\* ------------------------------------------------------- the environment
\* The upstream source of a channel no node produces puts its next value.
SourcePut(c) ==
    /\ IsSource(c)
    /\ ~chan[c].closed
    /\ srcCount[c] < MaxLen
    /\ Len(chan[c].buf) < cap
    /\ chan' = ChannelPut(chan, c, Scalar(SrcVal(c, srcCount[c] + 1)))
    /\ srcCount' = [srcCount EXCEPT ![c] = @ + 1]
    /\ UNCHANGED <<confVars, nodeVars, closeLog, pushed, joins, results,
                   raisedAt, ops, drained, closedBy>>

\* The upstream source is done and closes its channel.
SourceClose(c) ==
    /\ IsSource(c)
    /\ ~chan[c].closed
    /\ chan' = ChannelClose(chan, c)
    /\ closedBy' = FirstCloser(closedBy, c, "source")
    /\ UNCHANGED <<confVars, nodeVars, closeLog, pushed, joins, results,
                   raisedAt, ops, srcCount, drained>>

\* The downstream reader of a channel no node consumes takes a value.
ReaderGet(c) ==
    /\ IsSink(c)
    /\ chan[c].buf # <<>>
    /\ drained' = [drained EXCEPT ![c] = Record(@, Head(chan[c].buf))]
    /\ chan' = ChannelGet(chan, c)
    /\ UNCHANGED <<confVars, nodeVars, closeLog, pushed, joins, results,
                   raisedAt, ops, srcCount, closedBy>>

\* What the downstream reader sees on its next get: end-of-stream.
ReaderAtEos(c) == IsSink(c) /\ chan[c].buf = <<>> /\ chan[c].closed

\* A downstream consumer closes its channel before the producer is done
\* (one consumer of the graph does so).
ReaderClose(c) ==
    /\ IsSink(c)
    /\ ~chan[c].closed
    /\ \A d \in Chans : closedBy[d] # "reader"
    /\ chan' = ChannelClose(chan, c)
    /\ closedBy' = FirstCloser(closedBy, c, "reader")
    /\ UNCHANGED <<confVars, nodeVars, closeLog, pushed, joins, results,
                   raisedAt, ops, srcCount, drained>>

\* ------------------------------------------------------------------ Init
Identity(S) == [k \in S |-> k]
Declared(ins, outs) == Range(ins) \cup Range(outs)

\* Mappings a caller may supply for the declared names: all of them, all of
\* them and one more, or all but one.
KwargsChoices(ins, outs) ==
    LET D == Declared(ins, outs)
    IN {Identity(D), Identity(D \cup {"w"})} \cup {Identity(D \ {k}) : k \in D}

InitCommon ==
    /\ err = [n \in Nodes |-> "none"]
    /\ self_inputs = [n \in Nodes |-> <<>>]
    /\ self_outputs = [n \in Nodes |-> <<>>]
    /\ self_queue_manager = [n \in Nodes |-> NoManager]
    /\ depth = [n \in Nodes |-> 0]
    /\ in_args = [n \in Nodes |-> <<>>]
    /\ data = [n \in Nodes |-> Scalar(0)]
    /\ puti = [n \in Nodes |-> 1]
    /\ chan = [c \in Chans |-> [buf |-> <<>>, closed |-> FALSE]]
    /\ closeLog = [n \in Nodes |-> <<>>]
    /\ pushed = [n \in Nodes |-> [c \in Chans |-> <<>>]]
    /\ joins = [n \in Nodes |-> <<>>]
    /\ results = [n \in Nodes |-> <<>>]
    /\ raisedAt = [n \in Nodes |-> 0]
    /\ ops = [n \in Nodes |-> [c \in Chans |-> {}]]
    /\ srcCount = [c \in Chans |-> 0]
    /\ drained = [c \in Chans |-> <<>>]
    /\ closedBy = [c \in Chans |-> ""]

\* One node, any declared arity, fed by sources and read by readers over
\* channels that never fill.
InitSolo ==
    /\ InitCommon
    /\ cap = MaxLen
    /\ trace = TRUE
    /\ \E ins \in {<<>>, <<"a">>, <<"a", "b">>},
          outs \in {<<>>, <<"x">>, <<"x", "y">>, <<"x", "y", "z">>} :
          /\ inputs = [n \in Nodes |-> IF n = "n1" THEN ins ELSE <<>>]
          /\ outputs = [n \in Nodes |-> IF n = "n1" THEN outs ELSE <<>>]
          /\ \E kw \in KwargsChoices(ins, outs) :
                 kwargs = [n \in Nodes |-> IF n = "n1" THEN kw ELSE <<>>]
    /\ pc = [n \in Nodes |-> IF n = "n1" THEN "new" ELSE "absent"]

\* Two nodes declared with the same output channel: the first has no input
\* and one or two outputs, the second is fed by a source.
InitShared ==
    /\ InitCommon
    /\ cap = MaxLen
    /\ trace = TRUE
    /\ \E outs \in {<<"x">>, <<"x", "y">>} :
          /\ inputs = [n \in Nodes |-> IF n = "n1" THEN <<>> ELSE <<"b">>]
          /\ outputs = [n \in Nodes |-> IF n = "n1" THEN outs ELSE <<"x">>]
          /\ kwargs = [n \in Nodes |->
                 IF n = "n1" THEN Identity(Range(outs)) ELSE Identity({"b", "x"})]
    /\ pc = [n \in Nodes |-> "new"]

\* A chain: the first node, with no input or two source-fed inputs, writes
\* the channel x that the second node reads as its input a, over channels
\* that hold one item.  Only the progress of the runs is of interest here,
\* not the values.
InitChain ==
    /\ InitCommon
    /\ cap = 1
    /\ trace = FALSE
    /\ \E ins \in {<<>>, <<"a", "b">>} :
          /\ inputs = [n \in Nodes |-> IF n = "n1" THEN ins ELSE <<"a">>]
          /\ kwargs = [n \in Nodes |->
                 IF n = "n1" THEN Identity(Declared(ins, <<"x">>))
                 ELSE [k \in {"a", "x"} |-> IF k = "a" THEN "x" ELSE "y"]]
    /\ outputs = [n \in Nodes |-> <<"x">>]
    /\ pc = [n \in Nodes |-> "new"]

Init == InitSolo

Next ==
    \/ \E n \in Nodes :
        \/ Construct(n)
        \/ Run(n)
        \/ WithOut(n)
        \/ AzipEmpty(n)
        \/ AzipPull(n)
        \/ AzipStop(n)
        \/ Call(n)
        \/ Put(n)
        \/ PutClosed(n)
        \/ Unwind(n)
    \/ \E c \in Chans :
        \/ SourcePut(c)
        \/ SourceClose(c)
        \/ ReaderGet(c)
        \/ ReaderClose(c)

Spec == Init /\ [][Next]_vars

SpecShared == InitShared /\ [][Next]_vars

\* Every step one node can take.
NodeStep(n) ==
    \/ Construct(n)
    \/ Run(n)
    \/ WithOut(n)
    \/ AzipEmpty(n)
    \/ AzipPull(n)
    \/ AzipStop(n)
    \/ Call(n)
    \/ Put(n)
    \/ PutClosed(n)
    \/ Unwind(n)

\* The event loop resumes every coroutine that can go on, and a downstream
\* reader keeps draining.  Nothing obliges a source to put or to close.
Fairness ==
    /\ \A n \in Nodes : WF_vars(NodeStep(n))
    /\ \A c \in Chans : WF_vars(ReaderGet(c))

SpecChain == InitChain /\ [][Next]_vars /\ Fairness

\* The chain with no obligation on anyone: a reader may stop reading.
SpecBounded == InitChain /\ [][Next]_vars

\* =============================================================== properties
Constructed(n) == pc[n] \notin {"absent", "new", "noinstance"}
Running(n) == pc[n] \in {"with_out", "in", "call", "put", "unwind"}
Reverse(s) == [i \in 1..Len(s) |-> s[Len(s) - i + 1]]
\* The channels of the declared outputs, in declared order.
DeclaredOutChans(n) == [i \in DOMAIN outputs[n] |-> OutChan(n, i)]

\* C1: whenever run() of a node with at least one declared output has
\* returned or raised - inputs exhausted, f raised, a push raised - the node
\* has closed every one of its declared output channels.
C1_OutputsClosedOnReturn ==
    \A n \in Nodes :
        (pc[n] = "done" /\ Len(outputs[n]) >= 1) =>
            \A i \in DOMAIN outputs[n] :
                /\ chan[OutChan(n, i)].closed
                /\ OutChan(n, i) \in Range(closeLog[n])

\* C1 witness: run() of a three-output node has raised the error of f.
C1_Witness ==
    \E n \in Nodes :
        /\ pc[n] = "done"
        /\ Len(outputs[n]) = 3
        /\ err[n] = "TransformationError"
        /\ Len(closeLog[n]) = 3

\* C2: a node closes its outputs in the reverse of their declared order: at
\* every moment what it has closed so far is the start of the reversed
\* declaration, and when run() has ended it is all of it.
C2_ReverseCloseOrder ==
    \A n \in Nodes :
        Constructed(n) =>
            /\ closeLog[n] = SubSeq(Reverse(DeclaredOutChans(n)), 1, Len(closeLog[n]))
            /\ (pc[n] = "done" /\ Len(outputs[n]) >= 1) =>
                   closeLog[n] = Reverse(DeclaredOutChans(n))

\* C2 witness: outputs [x, y, z] were closed z, then y, then x, on an error.
C2_Witness ==
    \E n \in Nodes :
        /\ pc[n] = "done"
        /\ outputs[n] = <<"x", "y", "z">>
        /\ closeLog[n] = <<"z", "y", "x">>
        /\ err[n] # "none"

\* C3 (as claimed): no node closes a channel that two or more nodes declare
\* as an output while another of those nodes is inside its loop, holding
\* the channel and able to push to it.
C3_ClosedOnlyWhenProducersDone ==
    [][\A c \in Chans :
          (/\ Cardinality(Producers(c)) >= 2
           /\ ~chan[c].closed
           /\ chan'[c].closed
           /\ closedBy'[c] \in Nodes)
              => \A n \in Producers(c) \ {closedBy'[c]} :
                     pc[n] \notin {"in", "call", "put"}]_vars

\* C4 (as claimed): when run() has ended after f raised on the k-th join
\* tuple, each declared output was pushed exactly k-1 values, each is
\* closed, and the error run() raised is the one f raised.
C4_RaiseOnKthTuple ==
    \A n \in Nodes :
        (pc[n] = "done" /\ raisedAt[n] >= 1) =>
            /\ \A i \in DOMAIN outputs[n] :
                   /\ Len(pushed[n][OutChan(n, i)]) = raisedAt[n] - 1
                   /\ chan[OutChan(n, i)].closed
            /\ err[n] = "TransformationError"

\* A tuple returned by f whose length is not the declared output count.
ArityMismatch(n, d) == d.tuple /\ Len(d.vals) # Len(outputs[n])

\* C5 (as claimed): once f of a multi-output node has returned a tuple whose
\* length differs from the declared output count, the node is failing: it
\* is on its way out of run() with an error and pushes nothing of that
\* tuple.
C5_ArityMismatchFails ==
    \A n \in Nodes :
        (/\ Constructed(n)
         /\ Len(outputs[n]) >= 2
         /\ \E j \in DOMAIN results[n] : ArityMismatch(n, results[n][j]))
            => (pc[n] \in {"unwind", "done"} /\ err[n] # "none")

\* C6: when run() of a node with K >= 2 outputs has returned normally and
\* every value f returned was a K-tuple, f was called once per join tuple
\* and the i-th declared output was pushed exactly the i-th elements of
\* the results, in the order of the join tuples.
C6_PerOutputSequences ==
    \A n \in Nodes :
        LET K == Len(outputs[n])
        IN (/\ pc[n] = "done"
            /\ err[n] = "none"
            /\ K >= 2
            /\ \A j \in DOMAIN results[n] : ~ArityMismatch(n, results[n][j])
            /\ \A j \in DOMAIN results[n] : results[n][j].tuple)
               => /\ Len(results[n]) = Len(joins[n])
                  /\ \A j \in DOMAIN results[n] :
                         results[n][j] = FValue(joins[n][j], [tuple |-> TRUE, arity |-> K])
                  /\ \A i \in 1..K :
                         pushed[n][OutChan(n, i)] =
                             [j \in DOMAIN results[n] |-> Scalar(results[n][j].vals[i])]

\* C6 witness: a three-output node returned normally after two join tuples,
\* each mapped to a 3-tuple.
C6_Witness ==
    \E n \in Nodes :
        /\ pc[n] = "done"
        /\ err[n] = "none"
        /\ Len(outputs[n]) = 3
        /\ Len(results[n]) = 2
        /\ \A j \in DOMAIN results[n] :
               results[n][j].tuple /\ Len(results[n][j].vals) = 3

\* The fewest values any input of the node was given by its source.
MinSrc(n) ==
    LET counts == {srcCount[InChan(n, i)] : i \in DOMAIN inputs[n]}
    IN CHOOSE m \in counts : \A k \in counts : m <= k
\* The j-th value of every input, bound to the name of the input.
ExpectedArgs(n, j) ==
    [k \in Range(inputs[n]) |-> Scalar(SrcVal(self_inputs[n][k], j))]

\* C7: when run() of a single-output node with N >= 1 source-fed inputs has
\* returned normally, its output was pushed exactly min(L1..LN) values, the
\* j-th being f of the j-th value of every input bound by input name; the
\* output is closed, and its reader has taken, or still finds buffered,
\* exactly those values before end-of-stream.
C7_ZipJoinSingleOutput ==
    \A n \in Nodes :
        (/\ pc[n] = "done"
         /\ err[n] = "none"
         /\ Len(outputs[n]) = 1
         /\ Len(inputs[n]) >= 1
         /\ \A i \in DOMAIN inputs[n] : IsSource(InChan(n, i)))
            => LET c == OutChan(n, 1)
                   out == pushed[n][c]
               IN /\ Len(out) = MinSrc(n)
                  /\ \A j \in DOMAIN out :
                         \E sh \in FShapes(1) : out[j] = FValue(ExpectedArgs(n, j), sh)
                  /\ chan[c].closed
                  /\ drained[c] \o chan[c].buf = out
                  /\ ReaderAtEos(c) => drained[c] = out

\* C7 witness: inputs of lengths 1 and 2; one value was pushed, f of the
\* first value of each, and the reader drained it and is at end-of-stream.
C7_Witness ==
    \E n \in Nodes :
        /\ pc[n] = "done"
        /\ err[n] = "none"
        /\ outputs[n] = <<"x">>
        /\ inputs[n] = <<"a", "b">>
        /\ srcCount["a"] = 1
        /\ srcCount["b"] = 2
        /\ chan["a"].closed /\ chan["b"].closed
        /\ ReaderAtEos("x")
        /\ drained["x"] = <<Scalar(21)>>

\* C8: a node with no declared input and at least one output never pulls a
\* value, never calls f and never pushes; run() goes from acquiring the
\* outputs straight to closing them in reverse declared order and returns
\* without error.
C8_ZeroInputNode ==
    \A n \in Nodes :
        (Constructed(n) /\ Len(inputs[n]) = 0 /\ Len(outputs[n]) >= 1) =>
            /\ joins[n] = <<>>
            /\ results[n] = <<>>
            /\ \A c \in Chans : pushed[n][c] = <<>> /\ "get" \notin ops[n][c]
            /\ pc[n] \notin {"call", "put"}
            /\ err[n] = "none"
            /\ pc[n] = "done" => closeLog[n] = Reverse(DeclaredOutChans(n))

\* C8 witness: run() of a node with no input and outputs [x, y, z] returned.
C8_Witness ==
    \E n \in Nodes :
        /\ pc[n] = "done"
        /\ inputs[n] = <<>>
        /\ closeLog[n] = <<"z", "y", "x">>
        /\ err[n] = "none"

\* C9: a constructor call whose mapping lacks a declared input or output
\* name raises AttributeError and leaves no node; a call whose mapping has
\* every declared name yields a node that binds exactly the declared names,
\* each to the channel supplied for it.
C9_ConstructorBinding ==
    [][\A n \in Nodes :
          (pc[n] = "new" /\ pc'[n] # "new") =>
              IF \E k \in Declared(inputs[n], outputs[n]) : k \notin DOMAIN kwargs[n]
              THEN /\ pc'[n] = "noinstance"
                   /\ err'[n] = "AttributeError"
                   /\ self_inputs'[n] = <<>>
                   /\ self_outputs'[n] = <<>>
              ELSE /\ pc'[n] = "Idle"
                   /\ err'[n] = "none"
                   /\ DOMAIN self_inputs'[n] = Range(inputs[n])
                   /\ DOMAIN self_outputs'[n] = Range(outputs[n])
                   /\ \A k \in Range(inputs[n]) : self_inputs'[n][k] = kwargs[n][k]
                   /\ \A k \in Range(outputs[n]) : self_outputs'[n][k] = kwargs[n][k]]_vars

\* C9 witness: a constructor call has failed with AttributeError for a node
\* declared with two inputs and two outputs.
C9_Witness ==
    \E n \in Nodes :
        /\ pc[n] = "noinstance"
        /\ err[n] = "AttributeError"
        /\ Len(inputs[n]) = 2
        /\ Len(outputs[n]) = 2

\* C10: once a push has failed on a closed channel the node is on its way
\* out of run() with that error: it pulls no further input, calls f no
\* more, pushes no more, the error is not replaced, and when run() has
\* raised every declared output is closed.
C10_PushToClosedIsFatal ==
    /\ [](\A n \in Nodes :
            err[n] = "ChannelClosed" =>
                /\ pc[n] \in {"unwind", "done"}
                /\ pc[n] = "done" =>
                       \A i \in DOMAIN outputs[n] :
                           /\ chan[OutChan(n, i)].closed
                           /\ OutChan(n, i) \in Range(closeLog[n]))
    /\ [][\A n \in Nodes :
            err[n] = "ChannelClosed" =>
                /\ err'[n] = err[n]
                /\ in_args'[n] = in_args[n]
                /\ joins'[n] = joins[n]
                /\ results'[n] = results[n]
                /\ pushed'[n] = pushed[n]]_vars

\* C10 witness: run() of a two-output node raised after a push on a channel
\* its reader had closed.
C10_Witness ==
    \E n \in Nodes :
        /\ pc[n] = "done"
        /\ err[n] = "ChannelClosed"
        /\ Len(outputs[n]) = 2
        /\ \E i \in DOMAIN outputs[n] : closedBy[OutChan(n, i)] = "reader"

\* C11: on a channel bound to one of its inputs a node only ever reads; on
\* a channel bound to one of its outputs it only ever acquires, puts and
\* closes; it touches no other channel.  (Inputs and outputs of one node are
\* wired to different channels.)
C11_InputsReadOutputsWritten ==
    \A n \in Nodes : \A c \in Chans :
        Constructed(n) =>
            /\ c \in InChans(n) \ OutChans(n) => ops[n][c] \subseteq {"get"}
            /\ c \in OutChans(n) \ InChans(n) =>
                   ops[n][c] \subseteq {"enter", "put", "close"}
            /\ c \notin InChans(n) \cup OutChans(n) => ops[n][c] = {}

\* C11 witness: a two-input two-output node has run to its end having read
\* both inputs and acquired, put on and closed both outputs.
C11_Witness ==
    \E n \in Nodes :
        /\ pc[n] = "done"
        /\ inputs[n] = <<"a", "b">>
        /\ outputs[n] = <<"x", "y">>
        /\ ops[n]["a"] = {"get"} /\ ops[n]["b"] = {"get"}
        /\ ops[n]["x"] = {"enter", "put", "close"}
        /\ ops[n]["y"] = {"enter", "put", "close"}

\* The pending put of a node waits: its target channel is open and full.
Blocked(n) ==
    /\ pc[n] = "put"
    /\ LET c == PutPairs(self_queue_manager[n], data[n])[puti[n]][1]
       IN ~chan[c].closed /\ Len(chan[c].buf) >= cap

\* Every push of the node eventually completes.
PushCompletes(n) == []<>~Blocked(n)

Exhausted(c) ==
    \/ chan[c].closed
    \/ \E n \in Producers(c) : Running(n) /\ \A d \in InChans(n) : chan[d].closed

PutTarget(n) == PutPairs(self_queue_manager[n], data[n])[puti[n]][1]

\* C13: a node whose pending push is for a full, open channel has no step
\* to take: it is still running, has closed none of its outputs and has no
\* error, and it leaves that state only when the channel itself changes (a
\* reader takes a value or the channel is closed); meanwhile a node that
\* is not waiting on a channel has a step to take.
C13_PendingPushBlocks ==
    /\ [](\A n \in Nodes :
             Blocked(n) =>
                 /\ ~ENABLED NodeStep(n)
                 /\ Running(n) /\ err[n] = "none" /\ closeLog[n] = <<>>
                 /\ depth[n] = Len(outputs[n])
                 /\ \A m \in Nodes \ {n} :
                        pc[m] \in {"new", "Idle", "with_out", "call", "unwind"}
                            => ENABLED NodeStep(m))
    /\ [][\A n \in Nodes :
             (Blocked(n) /\ chan'[PutTarget(n)] = chan[PutTarget(n)]) =>
                 /\ pc'[n] = pc[n] /\ err'[n] = err[n]
                 /\ closeLog'[n] = closeLog[n] /\ depth'[n] = depth[n]
                 /\ puti'[n] = puti[n] /\ data'[n] = data[n]]_vars

\* C13 witness: the downstream node waits on its full output, which the
\* reader has left alone, while the upstream node, which does not touch
\* that channel, goes on to close its own output.
C13_Witness ==
    /\ Blocked("n2") /\ PutTarget("n2") = "y"
    /\ "y" \notin OutChans("n1") \cup InChans("n1")
    /\ pc["n1"] = "unwind"
    /\ ENABLED NodeStep("n1")

\* C14: a node with exactly one declared output is given the manager that
\* does not unpack; what it pushed on its one output is, item for item, what
\* f returned, scalar or tuple of any length, at most the last result still
\* to be pushed; no result makes the push fail for its type; and between
\* two passes of the loop, and at a normal end, there is one pushed item
\* per join tuple.
C14_SingleOutputPushesWhole ==
    \A n \in Nodes :
        (Constructed(n) /\ Len(outputs[n]) = 1) =>
            LET P == pushed[n][OutChan(n, 1)]
            IN /\ self_queue_manager[n].kind = "QueueManager"
               /\ err[n] # "TypeError"
               /\ Len(P) <= Len(results[n])
               /\ Len(results[n]) <= Len(P) + 1
               /\ Len(results[n]) <= Len(joins[n])
               /\ \A j \in DOMAIN P : P[j] = results[n][j]
               /\ \A c \in Chans \ {OutChan(n, 1)} : pushed[n][c] = <<>>
               /\ (pc[n] = "in" \/ (pc[n] = "done" /\ err[n] = "none"))
                      => (Len(P) = Len(results[n]) /\ Len(P) = Len(joins[n]))

\* C14 witness: a single-output node returned normally having pushed two
\* items, one of them a 2-tuple and one a scalar, each as f returned it.
C14_Witness ==
    \E n \in Nodes :
        /\ pc[n] = "done" /\ err[n] = "none"
        /\ Len(outputs[n]) = 1
        /\ Len(pushed[n][OutChan(n, 1)]) = 2
        /\ pushed[n][OutChan(n, 1)] = results[n]
        /\ \E j \in 1..2 : results[n][j].tuple /\ Len(results[n][j].vals) = 2
        /\ \E j \in 1..2 : ~results[n][j].tuple

\* C15: the loop of run() - pulling, calling f, pushing - goes on only
\* while every declared output is acquired and the node has closed none;
\* a step that pushes, or fails to, is taken in such a state; and once the
\* node has closed an output it pulls no input, does not call f and pushes
\* nothing for the rest of the run.
C15_NoPushAfterOwnClose ==
    /\ [](\A n \in Nodes :
             pc[n] \in {"in", "call", "put"} =>
                 (depth[n] = Len(outputs[n]) /\ closeLog[n] = <<>>))
    /\ [][\A n \in Nodes :
             /\ (pc[n] = "put" /\ <<pc[n], puti[n], err[n]>>' # <<pc[n], puti[n], err[n]>>)
                    => /\ depth[n] = Len(outputs[n])
                       /\ closeLog[n] = <<>>
                       /\ PutTarget(n) \notin Range(closeLog[n])
             /\ closeLog[n] # <<>>
                    => /\ in_args'[n] = in_args[n]
                       /\ joins'[n] = joins[n]
                       /\ results'[n] = results[n]
                       /\ pushed'[n] = pushed[n]
                       /\ \A c \in Chans : ops'[n][c] \ ops[n][c] \subseteq {"close"}
                       /\ pc'[n] \in {"unwind", "done"}]_vars

\* C15 witness: a two-output node has pushed on both outputs and then
\* closed both.
C15_Witness ==
    \E n \in Nodes :
        /\ pc[n] = "done"
        /\ Len(outputs[n]) = 2
        /\ Len(closeLog[n]) = 2
        /\ \A i \in 1..2 : Len(pushed[n][OutChan(n, i)]) = 2

\* C16: at every state, for declared outputs i before j of a node, the
\* number of values pushed on output i is the number pushed on output j or
\* exactly one more.
C16_EarlierOutputAtMostOneAhead ==
    \A n \in Nodes :
        Constructed(n) =>
            \A i \in DOMAIN outputs[n] : \A j \in DOMAIN outputs[n] :
                i < j =>
                    LET ahead == Len(pushed[n][OutChan(n, i)]) - Len(pushed[n][OutChan(n, j)])
                    IN ahead \in {0, 1}

\* C17: a constructor call for a node declared with no output succeeds when
\* every declared input is supplied; run() of such a node ends at once with
\* TypeError, having acquired or closed no channel, pulled no value and not
\* called f.
C17_NoOutputRunFails ==
    /\ [](\A n \in Nodes :
             (Constructed(n) /\ Len(outputs[n]) = 0) =>
                 /\ pc[n] \in {"Idle", "done"}
                 /\ pc[n] = "Idle" => err[n] = "none"
                 /\ pc[n] = "done" => err[n] = "TypeError"
                 /\ depth[n] = 0 /\ closeLog[n] = <<>>
                 /\ in_args[n] = <<>> /\ joins[n] = <<>> /\ results[n] = <<>>
                 /\ \A c \in Chans : ops[n][c] = {} /\ pushed[n][c] = <<>>
                 /\ \A c \in InChans(n) : Len(chan[c].buf) = srcCount[c])
    /\ [][\A n \in Nodes :
             (/\ pc[n] = "new" /\ pc'[n] # "new"
              /\ Len(outputs[n]) = 0
              /\ Range(inputs[n]) \subseteq DOMAIN kwargs[n])
                 => (pc'[n] = "Idle" /\ err'[n] = "none")]_vars

\* C17 witness: run() of a node with inputs [a, b] and no output has ended
\* with TypeError while the values its sources put are all still waiting.
C17_Witness ==
    \E n \in Nodes :
        /\ pc[n] = "done" /\ err[n] = "TypeError"
        /\ inputs[n] = <<"a", "b">> /\ outputs[n] = <<>>
        /\ Len(chan["a"].buf) = 2 /\ Len(chan["b"].buf) = 1

====
